---- MODULE Spec2Model ----
(***************************************************************************)
(* A model of the VexTab parser (src/vextab/vextab.js): the parser object, *)
(* the line dispatcher parse()/parseLine()/parseNotes(), the regular-      *)
(* expression lexer getNextToken(), the recursive-descent grammar rules    *)
(* for one note-group, and genElements().                                  *)
(*                                                                         *)
(* Strings are sequences of one-character strings.  A JavaScript value     *)
(* that may be a number, a string or undefined is a tagged record.  Each   *)
(* grammar rule is one action; a rule that continues after a call that is  *)
(* not in tail position has a second action for its continuation, and the  *)
(* pending continuations are kept in `stack`.                              *)
(***************************************************************************)
EXTENDS Integers, Sequences, FiniteSets, TLC

VARIABLES
  elements,         \* this.elements: staves, notes, ties
  state,            \* this.state: current_line, current_stave
  valid,            \* this.valid
  last_error,       \* this.last_error
  last_error_line,  \* this.last_error_line
  height,           \* this.height
  parse_state,      \* this.parse_state
  chord_index,      \* this.chord_index (the field parseCloseChord assigns)
  pc,               \* the function about to run
  stack,            \* continuations of the calls that are not tail calls
  lines,            \* parse(): the lines not yet visited
  tokens,           \* parseNotes(): the tokens not yet visited
  done,             \* parseToken(): the local variable `done`
  thrown,           \* the exception that left parse(), if any
  input,            \* the argument of the running parseToken() call
  before,           \* this.elements when the running parseToken() was called
  history           \* what the parser object did so far (see NoHistory)

vars == <<elements, state, valid, last_error, last_error_line, height,
          parse_state, chord_index, pc, stack, lines, tokens, done, thrown,
          input, before, history>>

(***************************************************************************)
(* Bounds of the model.                                                    *)
(***************************************************************************)
MaxLen == 3        \* longest enumerated note-group, in characters
MaxDocLines == 2   \* most lines of an enumerated multi-line document

(***************************************************************************)
(* JavaScript values.                                                      *)
(***************************************************************************)
Undefined == [t |-> "undefined"]
Num(n) == [t |-> "number", n |-> n]
Str(s) == [t |-> "string", s |-> s]
NaN == [t |-> "NaN"]

Digits == {"0", "1", "2", "3", "4", "5", "6", "7", "8", "9"}

DigitValue(c) ==
  CASE c = "0" -> 0 [] c = "1" -> 1 [] c = "2" -> 2 [] c = "3" -> 3
    [] c = "4" -> 4 [] c = "5" -> 5 [] c = "6" -> 6 [] c = "7" -> 7
    [] c = "8" -> 8 [] c = "9" -> 9

\* The longest prefix of s made of digits.
RECURSIVE DigitRun(_)
DigitRun(s) ==
  IF s = <<>> \/ Head(s) \notin Digits THEN <<>>
  ELSE <<Head(s)>> \o DigitRun(Tail(s))

RECURSIVE Decimal(_, _)
Decimal(s, acc) ==
  IF s = <<>> THEN acc ELSE Decimal(Tail(s), 10 * acc + DigitValue(Head(s)))

\* parseInt(s) of a token string: the number its leading digits denote,
\* NaN when it does not start with a digit.  Tokens hold no white space and
\* a sign is a token of one character, for which parseInt gives NaN.
ParseInt(s) ==
  IF DigitRun(s) = <<>> THEN NaN ELSE Num(Decimal(DigitRun(s), 0))

IsNaN(v) == v.t = "NaN"

(***************************************************************************)
(* The printable ASCII characters in code order, from 32 to 126 (the grave *)
(* accent, code 96, is written by name).                                   *)
(***************************************************************************)
Ascii ==
  << " ", "!", "\"", "#", "$", "%", "&", "'", "(", ")", "*", "+", ",", "-",
     ".", "/", "0", "1", "2", "3", "4", "5", "6", "7", "8", "9", ":", ";",
     "<", "=", ">", "?", "@", "A", "B", "C", "D", "E", "F", "G", "H", "I",
     "J", "K", "L", "M", "N", "O", "P", "Q", "R", "S", "T", "U", "V", "W",
     "X", "Y", "Z", "[", "\\", "]", "^", "_", "<grave>", "a", "b", "c", "d", "e",
     "f", "g", "h", "i", "j", "k", "l", "m", "n", "o", "p", "q", "r", "s",
     "t", "u", "v", "w", "x", "y", "z", "{", "|", "}", "~" >>

IsAscii(c) == \E i \in DOMAIN Ascii : Ascii[i] = c

CharCode(c) == 31 + (CHOOSE i \in DOMAIN Ascii : Ascii[i] = c)

\* c lies in the character range lo-hi of a regular expression class.
InRange(c, lo, hi) ==
  IsAscii(c) /\ CharCode(lo) <= CharCode(c) /\ CharCode(c) <= CharCode(hi)

\* The class [\)\(-tbhpsvV\.\/\|] of the lexer's regular expression: the
\* unescaped dash between \( and t makes "(-t" a range.
TokenClass(c) ==
  \/ c = ")"
  \/ InRange(c, "(", "t")
  \/ c \in {"b", "h", "p", "s", "v", "V", ".", "/", "|"}

\* String.prototype.toUpperCase on one character.
ToUpperCase(c) ==
  IF InRange(c, "a", "z")
  THEN Ascii[CharCode(c) - 31 - 32]
  ELSE c

(***************************************************************************)
(* Results of a grammar rule: where control goes next (`next` is the       *)
(* function called in tail position, "return" or "throw"), the parse       *)
(* state it leaves, the frames it pushes for calls that are not tail       *)
(* calls, and the error it throws.                                         *)
(***************************************************************************)
NoError == [type |-> "", msg |-> "", arg |-> <<>>]
ParseErr(msg, arg) == [type |-> "ParseError", msg |-> msg, arg |-> arg]
TypeErr == [type |-> "TypeError", msg |-> "", arg |-> <<>>]

Call(f, ps) == [next |-> f, ps |-> ps, push |-> <<>>, err |-> NoError]
CallPush(f, ps, frame) ==
  [next |-> f, ps |-> ps, push |-> <<frame>>, err |-> NoError]
Ret(ps) == [next |-> "return", ps |-> ps, push |-> <<>>, err |-> NoError]
Raise(e, ps) == [next |-> "throw", ps |-> ps, push |-> <<>>, err |-> e]

Frame(ret, fret) == [ret |-> ret, fret |-> fret]

\* getNextToken without its end-of-line test: at the end of the note-group
\* it returns with the previous token still in `value`.
GetNextToken_NoEndTest(ps) ==
  IF ps.done THEN [ok |-> TRUE, ps |-> ps, err |-> NoError]
  ELSE LET run == DigitRun(ps.str)
           tok == IF run # <<>> THEN run
                  ELSE IF ps.str # <<>> /\ TokenClass(Head(ps.str))
                       THEN <<Head(ps.str)>> ELSE <<>>
           rest == SubSeq(ps.str, Len(tok) + 1, Len(ps.str))
       IN IF tok # <<>>
          THEN [ok |-> TRUE,
                ps |-> [ps EXCEPT !.value = tok, !.str = rest,
                                  !.done = (rest = <<>>) \/ @],
                err |-> NoError]
          ELSE [ok |-> FALSE, ps |-> ps,
                err |-> ParseErr("Error parsing notes at: ", ps.str)]

(***************************************************************************)
(* getNextToken: the regular expression matches a run of digits or one     *)
(* character of TokenClass at the start of parse_state.str, then the rest  *)
(* of the line.  A note-group holds no line terminator (parseLine split    *)
(* the line on white space), so the rest always matches.                   *)
(***************************************************************************)
GetNextToken(ps) ==
  IF ps.done
  THEN [ok |-> FALSE, ps |-> ps,
        err |-> ParseErr("Unexpected end of line", <<>>)]
  ELSE LET run == DigitRun(ps.str)
           tok == IF run # <<>> THEN run
                  ELSE IF ps.str # <<>> /\ TokenClass(Head(ps.str))
                       THEN <<Head(ps.str)>> ELSE <<>>
           rest == SubSeq(ps.str, Len(tok) + 1, Len(ps.str))
       IN IF tok # <<>>
          THEN [ok |-> TRUE,
                ps |-> [ps EXCEPT !.value = tok, !.str = rest,
                                  !.done = (rest = <<>>) \/ @],
                err |-> NoError]
          ELSE [ok |-> FALSE, ps |-> ps,
                err |-> ParseErr("Error parsing notes at: ", ps.str)]

\* The parse state parseToken creates (`value` is first set by the lexer).
NewParseState(str) ==
  [str |-> str, done |-> FALSE, expecting_string |-> FALSE,
   positions |-> <<>>, position_index |-> -1, annotations |-> <<>>,
   bends |-> <<>>, vibratos |-> <<>>, ties |-> <<>>,
   inside_bend |-> FALSE, chord_index |-> -1, value |-> <<>>]

\* bends[bends.length - 1].count++
IncLastBend(ps) ==
  [ps EXCEPT !.bends[Len(ps.bends)].count = @ + 1]

(***************************************************************************)
(* The grammar rules.                                                      *)
(***************************************************************************)
parseOpenChord(ps) ==
  LET ps1 == [ps EXCEPT !.positions = Append(@, <<>>),
                        !.position_index = @ + 1,
                        !.chord_index = -1]
      t == GetNextToken(ps1)
  IN IF ~t.ok THEN Raise(t.err, t.ps) ELSE Call("parseChordFret", t.ps)

\* parseFret's dispatch, but letting a fret end the note-group.
parseFretFollow_AcceptsEnd(ps) ==
  LET t == GetNextToken(ps)
      v == t.ps.value
  IN IF ps.done THEN Ret(ps)
     ELSE IF ~t.ok THEN Raise(t.err, t.ps)
     ELSE IF v = <<"-">> THEN Call("parseDash", t.ps)
     ELSE IF v = <<"/">> THEN Call("parseSlash", t.ps)
     ELSE IF v = <<"b">> THEN Call("parseBend", t.ps)
     ELSE IF v \in {<<"s">>, <<"t">>, <<"h">>, <<"p">>}
          THEN Call("parseTie", t.ps)
     ELSE IF v \in {<<"v">>, <<"V">>} THEN Call("parseFretVibrato", t.ps)
     ELSE Raise(ParseErr("Unexpected token: ", v), t.ps)

parseFretFollow(ps) ==
  LET t == GetNextToken(ps)
      v == t.ps.value
  IN IF ~t.ok THEN Raise(t.err, t.ps)
     ELSE IF v = <<"-">> THEN Call("parseDash", t.ps)
     ELSE IF v = <<"/">> THEN Call("parseSlash", t.ps)
     ELSE IF v = <<"b">> THEN Call("parseBend", t.ps)
     ELSE IF v \in {<<"s">>, <<"t">>, <<"h">>, <<"p">>}
          THEN Call("parseTie", t.ps)
     ELSE IF v \in {<<"v">>, <<"V">>} THEN Call("parseFretVibrato", t.ps)
     ELSE Raise(ParseErr("Unexpected token: ", v), t.ps)

\* parseFret that clears expecting_string when it starts the new fret.
parseFret_NewRun(ps) ==
  LET str == ps.value
  IN IF IsNaN(ParseInt(str))
     THEN Raise(ParseErr("Invalid fret number: ", str), ps)
     ELSE parseFretFollow(
            [ps EXCEPT !.positions =
                          Append(@, <<[fret |-> str, str |-> Undefined]>>),
                       !.position_index = @ + 1,
                       !.expecting_string = FALSE])

parseFret(ps) ==
  LET str == ps.value
  IN IF IsNaN(ParseInt(str))
     THEN Raise(ParseErr("Invalid fret number: ", str), ps)
     ELSE parseFretFollow(
            [ps EXCEPT !.positions =
                          Append(@, <<[fret |-> str, str |-> Undefined]>>),
                       !.position_index = @ + 1])

\* parseTapAnnotation associating the annotation with the position after
\* the next one.
parseTapAnnotation_AfterNext(ps) ==
  LET ps1 == [ps EXCEPT !.annotations =
                 Append(@, [position |-> ps.position_index + 2,
                            text |-> "T"])]
      t == GetNextToken(ps1)
  IN IF ~t.ok THEN Raise(t.err, t.ps) ELSE Call("parseFret", t.ps)

parseTapAnnotation(ps) ==
  LET ps1 == [ps EXCEPT !.annotations =
                 Append(@, [position |-> ps.position_index + 1,
                            text |-> "T"])]
      t == GetNextToken(ps1)
  IN IF ~t.ok THEN Raise(t.err, t.ps) ELSE Call("parseFret", t.ps)

\* parseChordFret from "We found a slash" on: the string number, the push
\* onto the chord's position, and the separator or the close.
parseChordFretString(ps, fret) ==
  LET t == GetNextToken(ps)
      str == ParseInt(t.ps.value)
  IN IF ~t.ok THEN Raise(t.err, t.ps)
     ELSE IF IsNaN(str)
     THEN Raise(ParseErr("Invalid string number: ", t.ps.value), t.ps)
     ELSE IF t.ps.position_index + 1 \notin DOMAIN t.ps.positions
     THEN Raise(TypeErr, t.ps)
     ELSE
       LET ps1 == [t.ps EXCEPT
                     !.positions[t.ps.position_index + 1] =
                        Append(@, [fret |-> fret, str |-> str]),
                     !.chord_index = @ + 1]
           t2 == GetNextToken(ps1)
       IN IF ~t2.ok THEN Raise(t2.err, t2.ps)
          ELSE IF t2.ps.value = <<".">>
          THEN LET t3 == GetNextToken(t2.ps)
               IN IF ~t3.ok THEN Raise(t3.err, t3.ps)
                  ELSE Call("parseChordFret", t3.ps)
          ELSE IF t2.ps.value = <<")">>
          THEN Call("parseCloseChord", t2.ps)
          ELSE Raise(ParseErr("Unexpected token: ", t2.ps.value), t2.ps)

parseChordFret(ps) ==
  LET fret == ps.value
  IN IF IsNaN(ParseInt(fret))
     THEN Raise(ParseErr("Invalid fret number: ", fret), ps)
     ELSE LET t == GetNextToken(ps)
          IN IF ~t.ok THEN Raise(t.err, t.ps)
             ELSE IF t.ps.value = <<"b">>
             THEN CallPush("parseChordBend", t.ps,
                           Frame("parseChordFretString", fret))
             ELSE IF t.ps.value # <<"/">>
             THEN Raise(ParseErr("Expecting / for string number: ",
                                 t.ps.value), t.ps)
             ELSE parseChordFretString(t.ps, fret)

\* parseCloseChord after its first statement, which assigns the parser
\* object's field chord_index and not the parse state's.
parseCloseChord(ps) ==
  IF ps.done THEN Ret(ps)
  ELSE LET t == GetNextToken(ps)
       IN IF ~t.ok THEN Raise(t.err, t.ps)
          ELSE IF t.ps.value \in {<<"v">>, <<"V">>}
          THEN Call("parseVibrato", t.ps)
          ELSE Raise(ParseErr("Unexpected token: ", t.ps.value), t.ps)

\* parseChordBend that leaves inside_bend set when it returns on the slash.
parseChordBend_KeepInside(ps) ==
  LET t == GetNextToken(ps)
      fret == ParseInt(t.ps.value)
  IN IF ~t.ok THEN Raise(t.err, t.ps)
     ELSE IF IsNaN(fret)
     THEN Raise(ParseErr("Expecting fret: ", t.ps.value), t.ps)
     ELSE IF t.ps.inside_bend /\ t.ps.bends = <<>>
     THEN Raise(TypeErr, t.ps)
     ELSE
       LET ps1 == IF t.ps.inside_bend THEN IncLastBend(t.ps)
                  ELSE [t.ps EXCEPT
                          !.inside_bend = TRUE,
                          !.bends = Append(@,
                             [position |-> t.ps.position_index, count |-> 1,
                              index |-> t.ps.chord_index + 1,
                              to_fret |-> fret])]
           t2 == GetNextToken(ps1)
       IN IF ~t2.ok THEN Raise(t2.err, t2.ps)
          ELSE IF t2.ps.value = <<"b">>
          THEN CallPush("parseChordBend", t2.ps,
                        Frame("parseChordBendReturn", <<>>))
          ELSE IF t2.ps.value = <<"/">>
          THEN Ret(t2.ps)
          ELSE Raise(ParseErr("Unexpected token: ", t2.ps.value), t2.ps)

parseChordBend(ps) ==
  LET t == GetNextToken(ps)
      fret == ParseInt(t.ps.value)
  IN IF ~t.ok THEN Raise(t.err, t.ps)
     ELSE IF IsNaN(fret)
     THEN Raise(ParseErr("Expecting fret: ", t.ps.value), t.ps)
     ELSE IF t.ps.inside_bend /\ t.ps.bends = <<>>
     THEN Raise(TypeErr, t.ps)
     ELSE
       LET ps1 == IF t.ps.inside_bend THEN IncLastBend(t.ps)
                  ELSE [t.ps EXCEPT
                          !.inside_bend = TRUE,
                          !.bends = Append(@,
                             [position |-> t.ps.position_index, count |-> 1,
                              index |-> t.ps.chord_index + 1,
                              to_fret |-> fret])]
           t2 == GetNextToken(ps1)
       IN IF ~t2.ok THEN Raise(t2.err, t2.ps)
          ELSE IF t2.ps.value = <<"b">>
          THEN CallPush("parseChordBend", t2.ps,
                        Frame("parseChordBendReturn", <<>>))
          ELSE IF t2.ps.value = <<"/">>
          THEN Ret([t2.ps EXCEPT !.inside_bend = FALSE])
          ELSE Raise(ParseErr("Unexpected token: ", t2.ps.value), t2.ps)

\* parseChordBend after its recursive call returned.
parseChordBendReturn(ps) == Ret([ps EXCEPT !.inside_bend = FALSE])

\* parseDash that runs again instead of returning.
parseDash_Again(ps) ==
  LET ps1 == [ps EXCEPT !.inside_bend = FALSE]
  IN IF ps1.expecting_string
     THEN Raise(ParseErr("No dashes on strings: ", ps1.str), ps1)
     ELSE Call("parseDash", ps1)

parseDash(ps) ==
  LET ps1 == [ps EXCEPT !.inside_bend = FALSE]
  IN IF ps1.expecting_string
     THEN Raise(ParseErr("No dashes on strings: ", ps1.str), ps1)
     ELSE Ret(ps1)

\* parseVibrato that steps back one position inside a bend, whatever the
\* bend's count.
parseVibrato_OneStep(ps) ==
  LET harsh == (ps.value = <<"V">>)
  IN IF ps.inside_bend /\ ps.bends = <<>> THEN Raise(TypeErr, ps)
     ELSE LET position ==
                IF ps.inside_bend
                THEN ps.position_index - 1
                ELSE ps.position_index
          IN Ret([ps EXCEPT !.vibratos =
                     Append(@, [position |-> position, harsh |-> harsh])])

parseVibrato(ps) ==
  LET harsh == (ps.value = <<"V">>)
  IN IF ps.inside_bend /\ ps.bends = <<>> THEN Raise(TypeErr, ps)
     ELSE LET position ==
                IF ps.inside_bend
                THEN ps.position_index - ps.bends[Len(ps.bends)].count
                ELSE ps.position_index
          IN Ret([ps EXCEPT !.vibratos =
                     Append(@, [position |-> position, harsh |-> harsh])])

parseFretVibrato(ps) ==
  LET r == parseVibrato(ps)
      t == GetNextToken(r.ps)
      v == t.ps.value
  IN IF r.next = "throw" THEN r
     ELSE IF ~t.ok THEN Raise(t.err, t.ps)
     ELSE IF v = <<"-">> THEN Call("parseDash", t.ps)
     ELSE IF v \in {<<"s">>, <<"h">>, <<"p">>, <<"t">>}
          THEN Call("parseTie", t.ps)
     ELSE IF v = <<"/">> THEN Call("parseSlash", t.ps)
     ELSE Raise(ParseErr("Unexpected token: ", v), t.ps)

parseSlash(ps) ==
  LET ps1 == [ps EXCEPT !.inside_bend = FALSE, !.expecting_string = TRUE]
      t == GetNextToken(ps1)
  IN IF ~t.ok THEN Raise(t.err, t.ps) ELSE Call("parseString", t.ps)

\* parseString binding the string onto the current position only.
parseString_CurrentOnly(ps) ==
  LET str == ps.value
  IN IF Len(ps.positions) = 0
     THEN Raise(ParseErr("String without frets: ", str), ps)
     ELSE IF ps.positions[ps.position_index + 1] = <<>>
     THEN Raise(TypeErr, ps)
     ELSE Ret([ps EXCEPT
                 !.positions[ps.position_index + 1][1].str = Str(str)])

parseString(ps) ==
  LET str == ps.value
  IN IF Len(ps.positions) = 0
     THEN Raise(ParseErr("String without frets: ", str), ps)
     ELSE IF \E i \in DOMAIN ps.positions : ps.positions[i] = <<>>
     THEN Raise(TypeErr, ps)
     ELSE Ret([ps EXCEPT !.positions =
                 [i \in DOMAIN ps.positions |->
                    [ps.positions[i] EXCEPT ![1].str = Str(str)]]])

\* parseTie recording the effect as written, not in upper case.
parseTie_LowerCase(ps) ==
  LET ps1 == [ps EXCEPT !.inside_bend = FALSE]
  IN IF ps1.expecting_string
     THEN Raise(ParseErr("Unexpected token on string: ", ps1.str), ps1)
     ELSE LET ps2 == [ps1 EXCEPT !.ties =
                        Append(@, [position |-> ps1.position_index,
                                   index |-> ps1.chord_index + 1,
                                   effect |-> Head(ps1.value)])]
              t == GetNextToken(ps2)
          IN IF ~t.ok THEN Raise(t.err, t.ps) ELSE Call("parseFret", t.ps)

parseTie(ps) ==
  LET ps1 == [ps EXCEPT !.inside_bend = FALSE]
  IN IF ps1.expecting_string
     THEN Raise(ParseErr("Unexpected token on string: ", ps1.str), ps1)
     ELSE LET ps2 == [ps1 EXCEPT !.ties =
                        Append(@, [position |-> ps1.position_index,
                                   index |-> ps1.chord_index + 1,
                                   effect |-> ToUpperCase(Head(ps1.value))])]
              t == GetNextToken(ps2)
          IN IF ~t.ok THEN Raise(t.err, t.ps) ELSE Call("parseFret", t.ps)

\* parseBend recording the bend at the position of its destination fret.
parseBend_NextPosition(ps) ==
  IF ps.expecting_string
  THEN Raise(ParseErr("Unexpected token on string: ", ps.str), ps)
  ELSE IF ps.inside_bend /\ ps.bends = <<>> THEN Raise(TypeErr, ps)
  ELSE LET ps1 == IF ps.inside_bend THEN IncLastBend(ps)
                  ELSE [ps EXCEPT
                          !.inside_bend = TRUE,
                          !.bends = Append(@,
                             [position |-> ps.position_index + 1,
                              count |-> 1,
                              index |-> 0, to_fret |-> Undefined])]
           t == GetNextToken(ps1)
       IN IF ~t.ok THEN Raise(t.err, t.ps) ELSE Call("parseFret", t.ps)

parseBend(ps) ==
  IF ps.expecting_string
  THEN Raise(ParseErr("Unexpected token on string: ", ps.str), ps)
  ELSE IF ps.inside_bend /\ ps.bends = <<>> THEN Raise(TypeErr, ps)
  ELSE LET ps1 == IF ps.inside_bend THEN IncLastBend(ps)
                  ELSE [ps EXCEPT
                          !.inside_bend = TRUE,
                          !.bends = Append(@,
                             [position |-> ps.position_index, count |-> 1,
                              index |-> 0, to_fret |-> Undefined])]
           t == GetNextToken(ps1)
       IN IF ~t.ok THEN Raise(t.err, t.ps) ELSE Call("parseFret", t.ps)

(***************************************************************************)
(* Element generation.  The VexFlow objects are records of what their      *)
(* constructors are given; a note also lists the modifiers added to it.    *)
(* The height of a stave is VexFlow's, so this.height counts the pixels    *)
(* this file adds and the staves whose height was added.                   *)
(***************************************************************************)
\* array[index] = value on a JavaScript array (index from 0).
SetIndex(array, index, value) ==
  IF index < Len(array) THEN [array EXCEPT ![index + 1] = value]
  ELSE [i \in 1..(index + 1) |->
          IF i <= Len(array) THEN array[i]
          ELSE IF i = index + 1 THEN value ELSE Undefined]

\* The parser object's fields that element generation reads and writes.
Gen(el, h, st) == [elements |-> el, height |-> h, state |-> st]

\* genTabStave that does not push the stave onto elements.staves.
genTabStave_NoStave(g) ==
  LET cs == g.state.current_stave + 1
  IN Gen([staves |-> g.elements.staves,
          notes |-> SetIndex(g.elements.notes, cs, <<>>),
          ties |-> SetIndex(g.elements.ties, cs, <<>>)],
         [g.height EXCEPT !.staves = @ + 1],
         [g.state EXCEPT !.current_stave = cs])

genTabStave(g) ==
  LET stave == [x |-> 20, y |-> g.height, width |-> 380, tab_glyph |-> TRUE]
      cs == g.state.current_stave + 1
  IN Gen([staves |-> Append(g.elements.staves, stave),
          notes |-> SetIndex(g.elements.notes, cs, <<>>),
          ties |-> SetIndex(g.elements.ties, cs, <<>>)],
         [g.height EXCEPT !.staves = @ + 1],
         [g.state EXCEPT !.current_stave = cs])

genBar(g) ==
  LET g1 == IF g.state.current_stave = -1 THEN genTabStave(g) ELSE g
  IN [g1 EXCEPT !.elements.notes[g1.state.current_stave + 1] =
                   Append(@, [type |-> "BarNote"])]

\* positions[p][k] exists (p, k from 0).
HasFret(positions, p, k) ==
  /\ p + 1 \in DOMAIN positions
  /\ k + 1 \in DOMAIN positions[p + 1]

AddModifier(notes, p, modifier) ==
  [notes EXCEPT ![p + 1].note.modifiers = Append(@, modifier)]

BendText(to_fret, from_fret) ==
  CASE to_fret - from_fret = 1 -> [text |-> "1/2"]
    [] to_fret - from_fret = 2 -> [text |-> "Full"]
    [] to_fret - from_fret = 3 -> [text |-> "1 1/2"]
    [] to_fret - from_fret = 4 -> [text |-> "2 Steps"]
    [] OTHER -> [text |-> "Bend to", to_fret |-> to_fret]

\* The "Add bends" loop from bend i on; ok is FALSE when it reads a
\* property of undefined.
RECURSIVE AddBends(_, _, _, _)
AddBends(notes, positions, bends, i) ==
  IF i > Len(bends) THEN [ok |-> TRUE, notes |-> notes]
  ELSE
    LET bend == bends[i]
        explicit == bend.to_fret.t = "number" /\ bend.to_fret.n # 0
    IN IF ~HasFret(positions, bend.position, bend.index)
       THEN [ok |-> FALSE, notes |-> notes]
       ELSE IF ~explicit /\ ~HasFret(positions, bend.position + 1, bend.index)
       THEN [ok |-> FALSE, notes |-> notes]
       ELSE
         LET from_fret ==
               ParseInt(positions[bend.position + 1][bend.index + 1].fret).n
             to_fret ==
               IF explicit THEN bend.to_fret.n
               ELSE ParseInt(
                      positions[bend.position + 2][bend.index + 1].fret).n
             notes1 == IF explicit THEN notes
                       ELSE [notes EXCEPT ![bend.position + 2].persist = FALSE]
             modifier == [type |-> "Bend",
                          text |-> BendText(to_fret, from_fret),
                          release |-> bend.count > 1,
                          index |-> bend.index]
         IN AddBends(AddModifier(notes1, bend.position, modifier),
                     positions, bends, i + 1)

\* The "Add vibratos" and "Add annotations" loops.
RECURSIVE AddVibratos(_, _, _)
AddVibratos(notes, vibratos, i) ==
  IF i > Len(vibratos) THEN [ok |-> TRUE, notes |-> notes]
  ELSE IF vibratos[i].position + 1 \notin DOMAIN notes
  THEN [ok |-> FALSE, notes |-> notes]
  ELSE AddVibratos(
         AddModifier(notes, vibratos[i].position,
                     [type |-> "Vibrato", harsh |-> vibratos[i].harsh]),
         vibratos, i + 1)

RECURSIVE AddAnnotations(_, _, _)
AddAnnotations(notes, annotations, i) ==
  IF i > Len(annotations) THEN [ok |-> TRUE, notes |-> notes]
  ELSE IF annotations[i].position + 1 \notin DOMAIN notes
  THEN [ok |-> FALSE, notes |-> notes]
  ELSE AddAnnotations(
         AddModifier(notes, annotations[i].position,
                     [type |-> "Annotation", text |-> annotations[i].text]),
         annotations, i + 1)

\* The "Add ties" loop: the ties pushed onto the current stave's list.
RECURSIVE AddTies(_, _, _, _)
AddTies(stave_ties, notes, ties, i) ==
  IF i > Len(ties) THEN [ok |-> TRUE, ties |-> stave_ties]
  ELSE
    LET tie == ties[i]
    IN IF tie.position + 1 \notin DOMAIN notes
          \/ tie.position + 2 \notin DOMAIN notes
       THEN [ok |-> FALSE, ties |-> stave_ties]
       ELSE AddTies(
              Append(stave_ties,
                     [type |-> IF tie.effect = "S" THEN "TabSlide"
                               ELSE "TabTie",
                      first_note |-> notes[tie.position + 1].note,
                      last_note |-> notes[tie.position + 2].note,
                      effect |-> tie.effect]),
              notes, ties, i + 1)

\* The notes that persist, in order.
RECURSIVE Persisting(_)
Persisting(notes) ==
  IF notes = <<>> THEN <<>>
  ELSE (IF Head(notes).persist THEN <<Head(notes).note>> ELSE <<>>)
       \o Persisting(Tail(notes))

genElements(g, ps) ==
  LET g1 == IF g.state.current_stave = -1 THEN genTabStave(g) ELSE g
      cs == g1.state.current_stave + 1
      notes0 == [i \in DOMAIN ps.positions |->
                   [note |-> [type |-> "TabNote",
                              positions |-> ps.positions[i],
                              duration |-> "8", modifiers |-> <<>>],
                    persist |-> TRUE]]
      b == AddBends(notes0, ps.positions, ps.bends, 1)
      v == AddVibratos(b.notes, ps.vibratos, 1)
      a == AddAnnotations(v.notes, ps.annotations, 1)
      t == AddTies(g1.elements.ties[cs], a.notes, ps.ties, 1)
      g2 == [g1 EXCEPT !.elements.ties[cs] = t.ties]
  IN IF ~b.ok \/ ~v.ok \/ ~a.ok THEN [ok |-> FALSE, g |-> g1]
     ELSE IF ~t.ok THEN [ok |-> FALSE, g |-> g2]
     ELSE [ok |-> TRUE,
           g |-> [g2 EXCEPT !.elements.notes[cs] = @ \o Persisting(a.notes)]]

(***************************************************************************)
(* String operations of parse() and parseLine().                           *)
(***************************************************************************)
WhiteSpace == {" ", "\t", "\n", "\r", "\f"}

\* The least index of s whose character is (in = TRUE) or is not
\* (in = FALSE) in set, Len(s) + 1 when there is none.
FirstIndex(s, set, in) ==
  IF \E i \in DOMAIN s : (s[i] \in set) = in
  THEN CHOOSE i \in DOMAIN s :
         /\ (s[i] \in set) = in
         /\ \A j \in 1..(i - 1) : (s[j] \in set) # in
  ELSE Len(s) + 1

\* code.split("\n")
RECURSIVE SplitLines(_)
SplitLines(s) ==
  LET i == FirstIndex(s, {"\n"}, TRUE)
  IN IF i > Len(s) THEN <<s>>
     ELSE <<SubSeq(s, 1, i - 1)>> \o SplitLines(SubSeq(s, i + 1, Len(s)))

\* line.replace(/(^\s*)|(\s*$)/gi, "")
RECURSIVE StripEnd(_)
StripEnd(s) ==
  IF s # <<>> /\ s[Len(s)] \in WhiteSpace
  THEN StripEnd(SubSeq(s, 1, Len(s) - 1)) ELSE s

Strip(s) == StripEnd(SubSeq(s, FirstIndex(s, WhiteSpace, FALSE), Len(s)))

\* line.split(/\s+/)
RECURSIVE SplitSpaces(_)
SplitSpaces(s) ==
  LET i == FirstIndex(s, WhiteSpace, TRUE)
      rest == SubSeq(s, i, Len(s))
      j == FirstIndex(rest, WhiteSpace, FALSE)
  IN IF i > Len(s) THEN <<s>>
     ELSE <<SubSeq(s, 1, i - 1)>> \o SplitSpaces(SubSeq(rest, j, Len(rest)))

kw_tabstave == <<"t", "a", "b", "s", "t", "a", "v", "e">>
kw_notes == <<"n", "o", "t", "e", "s">>

(***************************************************************************)
(* What is remembered of the parser object's past, to compare later        *)
(* behaviour with it: whether some parse() call returned, the first        *)
(* note-group whose parse ended with its outcome, and whether a later      *)
(* parse of that same note-group ended.                                    *)
(***************************************************************************)
\* The outcome of a note-group parse that ended with the rule result r.
Outcome(r) ==
  IF r.next = "throw"
  THEN [error |-> r.err,
        positions |-> <<>>, bends |-> <<>>, ties |-> <<>>,
        vibratos |-> <<>>, annotations |-> <<>>]
  ELSE [error |-> NoError,
        positions |-> r.ps.positions, bends |-> r.ps.bends,
        ties |-> r.ps.ties, vibratos |-> r.ps.vibratos,
        annotations |-> r.ps.annotations]

NoHistory ==
  [returned |-> FALSE, first |-> FALSE, input |-> <<>>,
   outcome |-> [error |-> NoError,
                positions |-> <<>>, bends |-> <<>>, ties |-> <<>>,
                vibratos |-> <<>>, annotations |-> <<>>],
   repeated |-> FALSE]

\* The history h after the parse of the note-group str ended with outcome o.
Ended(h, str, o) ==
  IF ~h.first
  THEN [h EXCEPT !.first = TRUE, !.input = str, !.outcome = o]
  ELSE IF h.input = str THEN [h EXCEPT !.repeated = TRUE]
  ELSE h

(***************************************************************************)
(* The parser object after init().                                         *)
(***************************************************************************)
NoElements == [staves |-> <<>>, notes |-> <<>>, ties |-> <<>>]
NoMessage == [msg |-> "", arg |-> <<>>]

Init ==
  /\ elements = NoElements
  /\ state = [current_line |-> 0, current_stave |-> -1]
  /\ valid = FALSE
  /\ last_error = NoMessage
  /\ last_error_line = 0
  /\ height = [px |-> 0, staves |-> 0]
  /\ parse_state = Undefined
  /\ chord_index = Undefined
  /\ pc = "idle"
  /\ stack = <<>>
  /\ lines = <<>>
  /\ tokens = <<>>
  /\ done = FALSE
  /\ thrown = ""
  /\ input = <<>>
  /\ before = NoElements
  /\ history = NoHistory

(***************************************************************************)
(* Control transfer.                                                       *)
(***************************************************************************)
\* An exception leaves parse(); parseError records it first.  line is
\* this.state.current_line when it is thrown.
Throw(err, ps, line) ==
  /\ thrown' = err.type
  /\ IF err.type = "ParseError"
     THEN /\ valid' = FALSE
          /\ last_error' = [msg |-> err.msg, arg |-> err.arg]
          /\ last_error_line' = line
     ELSE UNCHANGED <<valid, last_error, last_error_line>>
  /\ parse_state' = ps
  /\ pc' = "thrown"
  /\ stack' = <<>>
  /\ lines' = <<>>
  /\ tokens' = <<>>
  /\ done' = FALSE

\* The outcome r of a grammar rule that ran on the frames stk: a throw, a
\* tail call, or a return to the continuation on top of stk (to the loop of
\* parseToken, which then reads parse_state.done, when stk is empty).
Apply(r, stk) ==
  /\ IF r.next = "throw"
     THEN Throw(r.err, r.ps, state.current_line)
     ELSE /\ parse_state' = r.ps
          /\ stack' = r.push \o stk
          /\ pc' = IF r.next # "return" THEN r.next
                   ELSE IF stk = <<>> THEN "parseTokenLoop"
                   ELSE Head(stk).ret
          /\ done' = IF r.next = "return" /\ stk = <<>> THEN r.ps.done
                     ELSE done
          /\ UNCHANGED <<valid, last_error, last_error_line, thrown, lines,
                         tokens>>
  /\ history' = IF r.next \in {"throw", "genElements"}
                THEN Ended(history, input, Outcome(r)) ELSE history
  /\ UNCHANGED <<elements, state, height, input, before>>

SetGen(g) ==
  /\ elements' = g.elements
  /\ height' = g.height
  /\ state' = g.state

(***************************************************************************)
(* The inputs: every note-group of at most MaxLen characters over          *)
(* Alphabet, the note-groups of Examples, and the documents of at most     *)
(* MaxDocLines lines of DocLines.                                          *)
(***************************************************************************)
Alphabet ==
  {"0", "5", "(", ")", "-", "/", ".", "t", "b", "s", "h", "p", "v", "V",
   "|", "a", "~"}

StringsOver(set, n) == UNION {[1..k -> set] : k \in 1..n}

Examples ==
  { <<"4", "-", "5", "-", "6", "/", "4">>,
    <<"5", "-", "6", "/", "4">>,
    <<"1", "2", "-", "0", "7", "/", "1", "0">>,
    <<"(", "4", "/", "5", ".", "5", "/", "6", ".", "6", ".", "7", ")">>,
    <<"(", "4", "/", "5", ".", "5", "/", "6", ".", "6", "/", "7", ")">>,
    <<"(", "4", "/", "5", ")">>,
    <<"(", "4", "/", "5">>,
    <<"(", "4", "/", "5", ")", "v", "6", "/", "3">>,
    <<"(", "4", "/", "5", ".", "6", "/", "4", ")", "V", "7", "/", "2">>,
    <<"(", "4", "/", "5", ")", "v", "6", "s", "7", "/", "3">>,
    <<"(", "4", "b", "5", "/", "3", ")">>,
    <<"(", "4", "b", "5", "b", "4", "/", "3", ".", "5", "b", "7", "/", "2", ")">>,
    <<"(", "4", "b", "0", "/", "3", ")">>,
    <<"(", "4", "b", "0", "/", "3", ")", "v", "5", "/", "2">>,
    <<"5", "b", "6">>,
    <<"5", "b", "6", "/", "4">>,
    <<"5", "b", "6", "b", "5", "/", "4">>,
    <<"5", "b", "6", "v", "/", "4">>,
    <<"5", "b", "6", "b", "5", "V", "-", "7", "/", "4">>,
    <<"5", "s", "6">>,
    <<"5", "s", "6", "/", "4">>,
    <<"5", "h", "6", "p", "5", "/", "4">>,
    <<"5", "t", "6", "/", "4">>,
    <<"5", "v", "s", "6", "/", "4">>,
    <<"5", "-", "/", "4">>,
    <<"5", "/", "4", "t", "6", "/", "5">>,
    <<"5", "/", "4", "t", "6", "-">>,
    <<"5", "/", "4", "(", "6", "/", "5", ")">>,
    <<"t", "5", "/", "4">>,
    <<"5", "-", "t", "6", "/", "4">>,
    <<"5", "/", "a">>,
    <<"4", "-", "5", "-">>,
    <<"t", "5", "b", "6", "v", "s", "7", "/", "4">>,
    <<"4", "-", "5", "b", "6", "b", "5", "v", "/", "4">>,
    <<"5", "/", "4", "t", "6", "s", "7", "/", "5">>,
    <<"5", "/", "4", "t", "6", "b", "7", "/", "5">>,
    <<"5", "/", "4", "(", "6", "b", "7", "/", "5", ")">> }

NoteGroups == StringsOver(Alphabet, MaxLen) \cup Examples

DocLines ==
  { kw_tabstave,
    <<" ", " ">>,
    <<"n", "o", "t", "e">>,
    kw_notes,
    <<" ">> \o kw_notes \o <<" ", "\t", "4", "-", "5", "/", "4", " ">>,
    kw_notes \o <<" ", "|", " ", "5", "s", "6", "/", "4", " ", "|">>,
    kw_notes \o <<" ", "5", "b", "6", "/", "4", " ", "5", "/", "4">>,
    kw_notes \o <<" ", "5", "/", "4", " ", "5", "b", "6">>,
    kw_notes \o <<" ", "(", "4", "b", "0", "/", "3", ")">>,
    kw_tabstave \o <<" ", "x">> }

RECURSIVE Documents(_)
Documents(n) ==
  IF n = 1 THEN DocLines
  ELSE Documents(n - 1)
       \cup {d \o <<"\n">> \o l : d \in Documents(n - 1), l \in DocLines}

Codes ==
  {kw_notes \o <<" ">> \o g : g \in NoteGroups} \cup Documents(MaxDocLines)

(***************************************************************************)
(* parse(), parseLine(), parseNotes().                                     *)
(***************************************************************************)
\* parse(code) up to its loop: init() and the split into lines.
Parse(code) ==
  /\ pc = "idle"
  /\ elements' = NoElements
  /\ state' = [current_line |-> 0, current_stave |-> -1]
  /\ valid' = FALSE
  /\ last_error' = NoMessage
  /\ last_error_line' = 0
  /\ height' = [px |-> 0, staves |-> 0]
  /\ lines' = SplitLines(code)
  /\ pc' = "parse"
  /\ UNCHANGED <<parse_state, chord_index, stack, tokens, done, thrown,
                 input, before, history>>

\* One iteration of the loop of parse(), with parseLine() up to the call of
\* parseNotes().
ParseLine ==
  /\ pc = "parse"
  /\ lines # <<>>
  /\ LET line == Strip(Head(lines))
         st1 == [state EXCEPT !.current_line = @ + 1]
         toks == SplitSpaces(line)
         command == toks[1]
     IN IF line = <<>>
        THEN /\ state' = st1
             /\ lines' = Tail(lines)
             /\ UNCHANGED <<elements, height, valid, last_error,
                            last_error_line, parse_state, pc, stack, tokens,
                            done, thrown>>
        ELSE IF command = kw_tabstave
        THEN /\ SetGen(genTabStave(Gen(elements, height, st1)))
             /\ lines' = Tail(lines)
             /\ UNCHANGED <<valid, last_error, last_error_line, parse_state,
                            pc, stack, tokens, done, thrown>>
        ELSE IF command = kw_notes
        THEN /\ state' = st1
             /\ lines' = Tail(lines)
             /\ tokens' = Tail(toks)
             /\ pc' = "parseNotes"
             /\ UNCHANGED <<elements, height, valid, last_error,
                            last_error_line, parse_state, stack, done,
                            thrown>>
        ELSE /\ Throw(ParseErr("Invalid keyword: ", command), parse_state,
                      st1.current_line)
             /\ state' = st1
             /\ UNCHANGED <<elements, height>>
  /\ UNCHANGED <<chord_index, input, before, history>>

\* The end of parse().
ParseReturn ==
  /\ pc = "parse"
  /\ lines = <<>>
  /\ valid' = TRUE
  /\ height' = [height EXCEPT !.px = @ + 30]
  /\ pc' = "returned"
  /\ history' = [history EXCEPT !.returned = TRUE]
  /\ UNCHANGED <<elements, state, last_error, last_error_line, parse_state,
                 chord_index, stack, lines, tokens, done, thrown, input,
                 before>>

\* parseNotes generating the missing stave before it parses a note-group
\* instead of leaving that to genElements.
ParseNotes_StaveFirst ==
  /\ pc = "parseNotes"
  /\ IF tokens = <<>>
     THEN /\ pc' = "parse"
          /\ UNCHANGED <<elements, height, state, tokens, input, before>>
     ELSE IF Head(tokens) = <<"|">>
     THEN /\ SetGen(genBar(Gen(elements, height, state)))
          /\ tokens' = Tail(tokens)
          /\ UNCHANGED <<pc, input, before>>
     ELSE /\ pc' = "parseToken"
          /\ input' = Head(tokens)
          /\ before' = elements
          /\ tokens' = Tail(tokens)
          /\ SetGen(IF state.current_stave = -1
                    THEN genTabStave(Gen(elements, height, state))
                    ELSE Gen(elements, height, state))
  /\ UNCHANGED <<valid, last_error, last_error_line, parse_state,
                 chord_index, stack, lines, done, thrown, history>>

\* One iteration of the loop of parseNotes(), up to the call of parseToken().
ParseNotes ==
  /\ pc = "parseNotes"
  /\ IF tokens = <<>>
     THEN /\ pc' = "parse"
          /\ UNCHANGED <<elements, height, state, tokens, input, before>>
     ELSE IF Head(tokens) = <<"|">>
     THEN /\ SetGen(genBar(Gen(elements, height, state)))
          /\ tokens' = Tail(tokens)
          /\ UNCHANGED <<pc, input, before>>
     ELSE /\ pc' = "parseToken"
          /\ input' = Head(tokens)
          /\ before' = elements
          /\ tokens' = Tail(tokens)
          /\ UNCHANGED <<elements, height, state>>
  /\ UNCHANGED <<valid, last_error, last_error_line, parse_state,
                 chord_index, stack, lines, done, thrown, history>>

(***************************************************************************)
(* parseToken() and the grammar rules as steps.                            *)
(***************************************************************************)
\* parseToken(str) that keeps expecting_string of the parse state it
\* replaces.
ParseToken_KeepExpecting ==
  /\ pc = "parseToken"
  /\ parse_state' =
       [NewParseState(input) EXCEPT
          !.expecting_string = IF "expecting_string" \in DOMAIN parse_state
                               THEN parse_state.expecting_string
                               ELSE FALSE]
  /\ done' = FALSE
  /\ pc' = "parseTokenLoop"
  /\ UNCHANGED <<elements, state, valid, last_error, last_error_line, height,
                 chord_index, stack, lines, tokens, thrown, input, before,
                 history>>

\* parseToken(str) up to its loop.
ParseToken ==
  /\ pc = "parseToken"
  /\ parse_state' = NewParseState(input)
  /\ done' = FALSE
  /\ pc' = "parseTokenLoop"
  /\ UNCHANGED <<elements, state, valid, last_error, last_error_line, height,
                 chord_index, stack, lines, tokens, thrown, input, before,
                 history>>

\* The loop of parseToken() without the case "t" of its switch.
parseTokenLoop_NoTap(ps, local_done) ==
  IF local_done THEN Call("genElements", ps)
  ELSE LET t == GetNextToken(ps)
       IN IF ~t.ok THEN Raise(t.err, t.ps)
          ELSE IF t.ps.value = <<"(">> THEN Call("parseOpenChord", t.ps)
          ELSE Call("parseFret", t.ps)

\* The loop test of parseToken() and the dispatch on the token.
parseTokenLoop(ps, local_done) ==
  IF local_done THEN Call("genElements", ps)
  ELSE LET t == GetNextToken(ps)
       IN IF ~t.ok THEN Raise(t.err, t.ps)
          ELSE IF t.ps.value = <<"(">> THEN Call("parseOpenChord", t.ps)
          ELSE IF t.ps.value = <<"t">> THEN Call("parseTapAnnotation", t.ps)
          ELSE Call("parseFret", t.ps)

ParseTokenLoop ==
  /\ pc = "parseTokenLoop"
  /\ Apply(parseTokenLoop(parse_state, done), stack)
  /\ UNCHANGED chord_index

ParseOpenChord ==
  /\ pc = "parseOpenChord"
  /\ Apply(parseOpenChord(parse_state), stack)
  /\ UNCHANGED chord_index

ParseTapAnnotation ==
  /\ pc = "parseTapAnnotation"
  /\ Apply(parseTapAnnotation(parse_state), stack)
  /\ UNCHANGED chord_index

ParseChordFret ==
  /\ pc = "parseChordFret"
  /\ Apply(parseChordFret(parse_state), stack)
  /\ UNCHANGED chord_index

\* parseChordFret() resumed after parseChordBend() returned.
ParseChordFretString ==
  /\ pc = "parseChordFretString"
  /\ Apply(parseChordFretString(parse_state, Head(stack).fret), Tail(stack))
  /\ UNCHANGED chord_index

ParseCloseChord ==
  /\ pc = "parseCloseChord"
  /\ chord_index' = Num(-1)
  /\ Apply(parseCloseChord(parse_state), stack)

ParseChordBend ==
  /\ pc = "parseChordBend"
  /\ Apply(parseChordBend(parse_state), stack)
  /\ UNCHANGED chord_index

\* parseChordBend() resumed after its recursive call returned.
ParseChordBendReturn ==
  /\ pc = "parseChordBendReturn"
  /\ Apply(parseChordBendReturn(parse_state), Tail(stack))
  /\ UNCHANGED chord_index

ParseFret ==
  /\ pc = "parseFret"
  /\ Apply(parseFret(parse_state), stack)
  /\ UNCHANGED chord_index

ParseDash ==
  /\ pc = "parseDash"
  /\ Apply(parseDash(parse_state), stack)
  /\ UNCHANGED chord_index

ParseVibrato ==
  /\ pc = "parseVibrato"
  /\ Apply(parseVibrato(parse_state), stack)
  /\ UNCHANGED chord_index

ParseFretVibrato ==
  /\ pc = "parseFretVibrato"
  /\ Apply(parseFretVibrato(parse_state), stack)
  /\ UNCHANGED chord_index

ParseSlash ==
  /\ pc = "parseSlash"
  /\ Apply(parseSlash(parse_state), stack)
  /\ UNCHANGED chord_index

ParseString ==
  /\ pc = "parseString"
  /\ Apply(parseString(parse_state), stack)
  /\ UNCHANGED chord_index

ParseTie ==
  /\ pc = "parseTie"
  /\ Apply(parseTie(parse_state), stack)
  /\ UNCHANGED chord_index

ParseBend ==
  /\ pc = "parseBend"
  /\ Apply(parseBend(parse_state), stack)
  /\ UNCHANGED chord_index

\* genElements(), and the return to the loop of parseNotes().
GenElements ==
  /\ pc = "genElements"
  /\ LET r == genElements(Gen(elements, height, state), parse_state)
     IN /\ SetGen(r.g)
        /\ IF r.ok
           THEN /\ pc' = "parseNotes"
                /\ UNCHANGED <<valid, last_error, last_error_line,
                               parse_state, stack, lines, tokens, done,
                               thrown>>
           ELSE Throw(TypeErr, parse_state, state.current_line)
  /\ UNCHANGED <<chord_index, input, before, history>>

\* A caller's parser.parse(code) on the new parser object.
ParseCall ==
  /\ pc = "idle"
  /\ \E code \in Codes : Parse(code)

Next ==
  \/ ParseCall
  \/ ParseLine
  \/ ParseReturn
  \/ ParseNotes
  \/ ParseToken
  \/ ParseTokenLoop
  \/ ParseOpenChord
  \/ ParseTapAnnotation
  \/ ParseChordFret
  \/ ParseChordFretString
  \/ ParseCloseChord
  \/ ParseChordBend
  \/ ParseChordBendReturn
  \/ ParseFret
  \/ ParseDash
  \/ ParseVibrato
  \/ ParseFretVibrato
  \/ ParseSlash
  \/ ParseString
  \/ ParseTie
  \/ ParseBend
  \/ GenElements

Spec == Init /\ [][Next]_vars

(***************************************************************************)
(* Several parse() calls on one parser object.  A call may start whenever  *)
(* the object is not inside a call: fresh, after a call returned, or after *)
(* a call threw and the caller caught the exception.                       *)
(***************************************************************************)
RepeatCodes ==
  { <<"t", "a", "b", "s", "t", "a", "v", "e", "\n", "n", "o", "t",
      "e", "s", " ", "4", "-", "5", "/", "4", " ", "|", " ", "4", "-",
      "5", "/", "4">>,
    <<"n", "o", "t", "e", "s", " ", "t", "5", "/", "4", " ", "(", "4",
      "b", "5", "b", "4", "/", "3", ".", "5", "/", "2", ")", "v", " ",
      "5", "v", "/", "4">>,
    <<"t", "a", "b", "s", "t", "a", "v", "e", "\n", "n", "o", "t",
      "e", "s", " ", "5", "b", "6", "V", "-", "7", "/", "4", " ", "5",
      "s", "6", "/", "4", " ", "4", "-", "5", "-">>,
    <<"n", "o", "t", "e", "s", " ", "(", "4", "b", "0", "/", "3",
      ")">>,
    <<"n", "o", "t", "e">>,
    <<" ", " ", "\n">>,
    <<"n", "o", "t", "e", "s", " ", "4", "-", "5", "/", "4">> }

\* parse(code) that skips the assignment valid = false of init().
Reparse_KeepValid(code) ==
  /\ elements' = NoElements
  /\ state' = [current_line |-> 0, current_stave |-> -1]
  /\ valid' = valid
  /\ last_error' = NoMessage
  /\ last_error_line' = 0
  /\ height' = [px |-> 0, staves |-> 0]
  /\ lines' = SplitLines(code)
  /\ pc' = "parse"
  /\ thrown' = ""
  /\ input' = <<>>
  /\ before' = NoElements
  /\ UNCHANGED <<parse_state, chord_index, stack, tokens, done, history>>

\* parse(code) up to its loop, on an object that may have parsed before:
\* init() replaces elements, state, valid, last_error, last_error_line and
\* height, and leaves parse_state and chord_index as the last call left
\* them.
Reparse(code) ==
  /\ elements' = NoElements
  /\ state' = [current_line |-> 0, current_stave |-> -1]
  /\ valid' = FALSE
  /\ last_error' = NoMessage
  /\ last_error_line' = 0
  /\ height' = [px |-> 0, staves |-> 0]
  /\ lines' = SplitLines(code)
  /\ pc' = "parse"
  /\ thrown' = ""
  /\ input' = <<>>
  /\ before' = NoElements
  /\ UNCHANGED <<parse_state, chord_index, stack, tokens, done, history>>

\* A caller's parser.parse(code) on a parser object that is not parsing.
ReparseCall ==
  /\ pc \in {"idle", "returned", "thrown"}
  /\ \E code \in RepeatCodes : Reparse(code)

NextCalls ==
  \/ ReparseCall
  \/ ParseLine
  \/ ParseReturn
  \/ ParseNotes
  \/ ParseToken
  \/ ParseTokenLoop
  \/ ParseOpenChord
  \/ ParseTapAnnotation
  \/ ParseChordFret
  \/ ParseChordFretString
  \/ ParseCloseChord
  \/ ParseChordBend
  \/ ParseChordBendReturn
  \/ ParseFret
  \/ ParseDash
  \/ ParseVibrato
  \/ ParseFretVibrato
  \/ ParseSlash
  \/ ParseString
  \/ ParseTie
  \/ ParseBend
  \/ GenElements

SpecCalls == Init /\ [][NextCalls]_vars

(***************************************************************************)
(* Properties.                                                             *)
(***************************************************************************)
\* parseToken() returned: the note-group `input` parsed without an error.
GroupParsed == pc = "genElements"

\* parseToken() raised a parse error on the note-group `input`.
GroupRaised ==
  /\ pc = "thrown"
  /\ thrown = "ParseError"
  /\ last_error.msg # "Invalid keyword: "

GroupEnded == GroupParsed \/ GroupRaised

IsDigitString(s) == s # <<>> /\ \A i \in DOMAIN s : s[i] \in Digits

\* The string number of a fret/string pair, as a number.
StringOf(p) == IF p.str.t = "string" THEN ParseInt(p.str.s) ELSE p.str

\* The pair p is fret f on string s.
IsPair(p, f, s) == ParseInt(p.fret) = Num(f) /\ StringOf(p) = Num(s)

NoModifiers(ps) ==
  /\ ps.bends = <<>>
  /\ ps.ties = <<>>
  /\ ps.vibratos = <<>>
  /\ ps.annotations = <<>>

\* C1: whenever the note-group parse completes without a parse error, every
\* fret/string pair of every position has a string assigned.
C1_EveryFretHasString ==
  GroupParsed =>
    \A i \in DOMAIN parse_state.positions :
      \A k \in DOMAIN parse_state.positions[i] :
        parse_state.positions[i][k].str # Undefined

\* C2: parsing (4/5.5/6.6.7) succeeds and yields one position, the chord
\* (4,5), (5,6), (6,7), and no bends, ties, vibratos or annotations.
C2_ChordExample ==
  (/\ input = <<"(", "4", "/", "5", ".", "5", "/", "6", ".", "6", ".", "7",
                ")">>
   /\ GroupEnded)
  => /\ GroupParsed
     /\ Len(parse_state.positions) = 1
     /\ Len(parse_state.positions[1]) = 3
     /\ IsPair(parse_state.positions[1][1], 4, 5)
     /\ IsPair(parse_state.positions[1][2], 5, 6)
     /\ IsPair(parse_state.positions[1][3], 6, 7)
     /\ NoModifiers(parse_state)

\* Two positions of one fret each, frets f1 then f2.
TwoFrets(ps, f1, f2) ==
  /\ Len(ps.positions) = 2
  /\ Len(ps.positions[1]) = 1
  /\ Len(ps.positions[2]) = 1
  /\ ParseInt(ps.positions[1][1].fret) = Num(f1)
  /\ ParseInt(ps.positions[2][1].fret) = Num(f2)

\* One bend, at position 0, of one step, with no explicit target fret.
OneInferredBend(ps) ==
  /\ Len(ps.bends) = 1
  /\ ps.bends[1].position = 0
  /\ ps.bends[1].count = 1
  /\ ps.bends[1].to_fret = Undefined

\* C3 as stated: parsing 5b6 succeeds and yields the positions fret 5 and
\* fret 6 and exactly one bend with position 0, step count 1 and no target.
C3_Original ==
  (input = <<"5", "b", "6">> /\ GroupEnded)
  => /\ GroupParsed
     /\ TwoFrets(parse_state, 5, 6)
     /\ OneInferredBend(parse_state)

\* C3 amended: parsing 5b6 raises a parse error (the fret 6 is the last
\* token); parsing 5b6/4 succeeds and yields the positions fret 5 and
\* fret 6, both on string 4, and exactly one bend with position 0, step
\* count 1 and no explicit target fret.
C3_BendExample ==
  /\ (input = <<"5", "b", "6">> /\ GroupEnded)
     => GroupRaised /\ last_error.msg = "Unexpected end of line"
  /\ (input = <<"5", "b", "6", "/", "4">> /\ GroupEnded)
     => /\ GroupParsed
        /\ TwoFrets(parse_state, 5, 6)
        /\ IsPair(parse_state.positions[1][1], 5, 4)
        /\ IsPair(parse_state.positions[2][1], 6, 4)
        /\ OneInferredBend(parse_state)
        /\ parse_state.ties = <<>>
        /\ parse_state.vibratos = <<>>
        /\ parse_state.annotations = <<>>

C3_Witness ==
  /\ GroupParsed
  /\ input = <<"5", "b", "6", "/", "4">>
  /\ Len(parse_state.bends) = 1

\* One tie, a slide, at position 0.
OneSlide(ps) ==
  /\ Len(ps.ties) = 1
  /\ ps.ties[1].position = 0
  /\ ps.ties[1].effect = "S"

\* C4 as stated: parsing 5s6 succeeds and yields two positions and exactly
\* one tie of kind Slide at position 0.
C4_Original ==
  (input = <<"5", "s", "6">> /\ GroupEnded)
  => /\ GroupParsed
     /\ Len(parse_state.positions) = 2
     /\ OneSlide(parse_state)

\* The ties generated for the current stave (none before the first stave).
StaveTies ==
  IF state.current_stave = -1 THEN <<>>
  ELSE elements.ties[state.current_stave + 1]

\* C4 amended: parsing 5s6 raises a parse error (the fret 6 is the last
\* token); parsing 5s6/4 succeeds and yields two positions and exactly one
\* tie of kind Slide at position 0, and the slide generated from it
\* connects the note of position 0 to the note of position 1.
C4_SlideExample ==
  /\ [](/\ (input = <<"5", "s", "6">> /\ GroupEnded)
           => GroupRaised /\ last_error.msg = "Unexpected end of line"
        /\ (input = <<"5", "s", "6", "/", "4">> /\ GroupEnded)
           => /\ GroupParsed
              /\ TwoFrets(parse_state, 5, 6)
              /\ OneSlide(parse_state)
              /\ parse_state.bends = <<>>)
  /\ [][(input = <<"5", "s", "6", "/", "4">> /\ pc = "genElements")
        => /\ pc' = "parseNotes"
           /\ StaveTies' =
                Append(StaveTies,
                       [type |-> "TabSlide", effect |-> "S",
                        first_note |->
                          [type |-> "TabNote", duration |-> "8",
                           modifiers |-> <<>>,
                           positions |-> parse_state.positions[1]],
                        last_note |->
                          [type |-> "TabNote", duration |-> "8",
                           modifiers |-> <<>>,
                           positions |-> parse_state.positions[2]]])]_vars

C4_Witness ==
  /\ pc = "parseNotes"
  /\ input = <<"5", "s", "6", "/", "4">>
  /\ StaveTies # <<>>

\* The tokens that may follow a fret number outside a chord.
AfterFret == {"-", "/", "b", "s", "t", "h", "p", "v", "V"}

RECURSIVE Pieces(_, _)
Pieces(s, c) ==
  LET i == FirstIndex(s, {c}, TRUE)
  IN IF i > Len(s) THEN <<s>>
     ELSE <<SubSeq(s, 1, i - 1)>> \o Pieces(SubSeq(s, i + 1, Len(s)), c)

\* The frets and the string of a note-group f1-f2-...-fn/s.
RunFrets(s) == Pieces(Pieces(s, "/")[1], "-")
RunString(s) == Pieces(s, "/")[2]

\* s is n >= 1 fret numbers joined by dashes and ended by /string.
IsFretRun(s) ==
  /\ Len(Pieces(s, "/")) = 2
  /\ IsDigitString(RunString(s))
  /\ \A i \in DOMAIN RunFrets(s) : IsDigitString(RunFrets(s)[i])

\* C6: a note-group of n >= 1 fret numbers joined by dashes and ended by /s
\* parses to n positions in input order, each holding the single
\* corresponding fret with string s, and to no bends, ties, vibratos or
\* annotations.
C6_FretRun ==
  (IsFretRun(input) /\ GroupEnded)
  => /\ GroupParsed
     /\ Len(parse_state.positions) = Len(RunFrets(input))
     /\ \A i \in DOMAIN parse_state.positions :
          parse_state.positions[i] =
            <<[fret |-> RunFrets(input)[i], str |-> Str(RunString(input))]>>
     /\ NoModifiers(parse_state)

C6_Witness ==
  /\ GroupParsed
  /\ input = <<"4", "-", "5", "-", "6", "/", "4">>
  /\ Len(parse_state.positions) = 3
  /\ \A i \in 1..3 : StringOf(parse_state.positions[i][1]) = Num(4)

\* C7: when the string rule runs, every fret/string pair that already
\* carries a string keeps it.
C7_StringKept ==
  [][pc = "parseString"
     => \A i \in DOMAIN parse_state.positions :
          \A k \in DOMAIN parse_state.positions[i] :
            parse_state.positions[i][k].str # Undefined
            => parse_state'.positions[i][k].str
                 = parse_state.positions[i][k].str]_vars

Malformed ==
  { <<"5", "/">>, <<"(", "4", "/", "5">>, <<"5", "-", "/", "4">> }

\* C8: each of the note-groups 5/ and (4/5 and 5-/4 raises a parse error.
C8_MalformedRaise ==
  (input \in Malformed /\ pc \in {"genElements", "thrown"}) => GroupRaised

C8_Witness ==
  /\ GroupRaised
  /\ input = <<"5", "-", "/", "4">>
  /\ last_error = [msg |-> "Invalid fret number: ", arg |-> <<"/">>]

\* The one-character tokens of the language.
Symbols == {"(", ")", "-", "/", ".", "t", "b", "h", "p", "s", "v", "V"}

\* C9: a token the lexer returned is a run of digits or exactly one of the
\* characters ( ) - / . t b h p s v V.
C9_LexerTokens ==
  (parse_state # Undefined /\ parse_state.value # <<>>)
  => \/ IsDigitString(parse_state.value)
     \/ Len(parse_state.value) = 1 /\ parse_state.value[1] \in Symbols

\* C10: when parsing a note-group raises a parse error, elements.notes and
\* elements.ties are as they were before that note-group started, and
\* nothing of the same parse() call runs afterwards.
C10_NoPartialOutput ==
  /\ [](GroupRaised
        => elements.notes = before.notes /\ elements.ties = before.ties)
  /\ [][pc # "thrown"]_vars

C10_Witness ==
  /\ GroupRaised
  /\ before.notes # <<>>
  /\ before.notes[1] # <<>>
  /\ elements.notes = before.notes

(***************************************************************************)
(* C11: between and during parse() calls on one parser object, isValid()   *)
(* is true exactly when the most recent parse() call has processed all its *)
(* lines and returned; a call that raises leaves isValid() false even when *)
(* an earlier call on the same object had succeeded.                       *)
(***************************************************************************)
C11_ValidIffLastCallReturned ==
  /\ valid <=> pc = "returned"
  /\ pc = "thrown" /\ history.returned => ~valid

\* A call raised on an object on which an earlier call had succeeded.
C11_Witness ==
  /\ pc = "thrown"
  /\ thrown = "ParseError"
  /\ history.returned
  /\ ~valid

(***************************************************************************)
(* C12: the outcome of parsing a note-group (positions, bends, ties,       *)
(* vibratos and annotations, or the error) depends only on the group's     *)
(* string: whenever the parse of a note-group ends on a parser object that *)
(* has parsed groups before, in earlier parse() calls or in this one, the  *)
(* outcome equals the outcome of the first parse of the same string on     *)
(* that object.                                                            *)
(***************************************************************************)
\* The program counters inside parseToken() and the grammar rules.
InGroup ==
  pc \notin {"idle", "parse", "parseNotes", "parseToken", "genElements",
             "returned", "thrown"}

\* The outcome of the note-group parse read from the parser object, in a
\* state where parseToken() has just returned or thrown.
OutcomeNow ==
  IF pc = "genElements"
  THEN [error |-> NoError,
        positions |-> parse_state.positions, bends |-> parse_state.bends,
        ties |-> parse_state.ties, vibratos |-> parse_state.vibratos,
        annotations |-> parse_state.annotations]
  ELSE [error |-> IF thrown = "ParseError"
                  THEN ParseErr(last_error.msg, last_error.arg)
                  ELSE TypeErr,
        positions |-> <<>>, bends |-> <<>>, ties |-> <<>>,
        vibratos |-> <<>>, annotations |-> <<>>]

IsIndex(array, i) == i \in 0 .. (Len(array) - 1)

C13_PositionIndicesValid ==
  pc = "genElements" =>
    LET ps == parse_state
    IN /\ \A i \in DOMAIN ps.bends :
            /\ IsIndex(ps.positions, ps.bends[i].position)
            /\ ps.bends[i].to_fret = Undefined
                 => IsIndex(ps.positions, ps.bends[i].position + 1)
       /\ \A i \in DOMAIN ps.ties :
            /\ IsIndex(ps.positions, ps.ties[i].position)
            /\ IsIndex(ps.positions, ps.ties[i].position + 1)
       /\ \A i \in DOMAIN ps.vibratos :
            IsIndex(ps.positions, ps.vibratos[i].position)
       /\ \A i \in DOMAIN ps.annotations :
            IsIndex(ps.positions, ps.annotations[i].position)

\* A completed note-group with an annotation, a bend with inferred target,
\* a vibrato inside the bend, and a tie.
C13_Witness ==
  /\ pc = "genElements"
  /\ parse_state.annotations # <<>>
  /\ parse_state.ties # <<>>
  /\ parse_state.vibratos # <<>>
  /\ \E i \in DOMAIN parse_state.bends :
       parse_state.bends[i].to_fret = Undefined

(***************************************************************************)
(* C14: the note-group parse terminates, with a result or with a parse     *)
(* error.  Every step of parseToken() and of the grammar rules either ends *)
(* the parse (parseToken returns, or a ParseError is thrown) or decreases  *)
(* the measure made of the length of the remaining input, the number of    *)
(* suspended rule calls and the rank of the step, in lexicographic order:  *)
(* a step that fetches a token shortens the remaining input, and a step    *)
(* that fetches none returns to its caller or to the top-level loop, which *)
(* fetches or ends.  The measure is a triple of naturals, so no parse has   *)
(* infinitely many steps.                                                  *)
(***************************************************************************)
\* 0 for the top-level loop of parseToken(), 1 for a grammar rule.
Rank(label) == IF label = "parseTokenLoop" THEN 0 ELSE 1

\* The lexicographic order on triples of naturals.
Less(m, n) ==
  \/ m[1] < n[1]
  \/ m[1] = n[1] /\ m[2] < n[2]
  \/ m[1] = n[1] /\ m[2] = n[2] /\ m[3] < n[3]

Measure == <<Len(parse_state.str), Len(stack), Rank(pc)>>

C14_ParseTerminates ==
  /\ [][InGroup =>
          \/ pc' = "genElements"
          \/ pc' = "thrown" /\ thrown' = "ParseError"
          \/ InGroup' /\ Less(Measure', Measure)]_vars
  /\ [][InGroup /\ parse_state'.str # parse_state.str
          => Len(parse_state'.str) < Len(parse_state.str)]_vars

\* A parse that went through a chord with a bend chain (suspended calls,
\* and a return without a token fetch) and ended with a result.
C14_Witness ==
  /\ pc = "genElements"
  /\ parse_state.str = <<>>
  /\ Len(parse_state.positions[1]) = 2
  /\ \E i \in DOMAIN parse_state.bends :
       parse_state.bends[i].count = 2 /\ parse_state.bends[i].to_fret # Undefined

(***************************************************************************)
(* C15: a t token read by the top-level loop goes to parseTapAnnotation,   *)
(* which records one annotation with text "T" whose position is the index  *)
(* of the position the immediately following fret creates; a t that is not *)
(* followed by a fret number (the input ends, or the next token is not a   *)
(* number) raises a parse error; t5/4 yields one position (fret 5, string  *)
(* 4) and exactly one annotation, at position 0.                           *)
(***************************************************************************)
C15_TapAnnotation ==
  /\ [](input = <<"t", "5", "/", "4">> /\ GroupEnded
         => /\ GroupParsed
            /\ Len(parse_state.positions) = 1
            /\ Len(parse_state.positions[1]) = 1
            /\ IsPair(parse_state.positions[1][1], 5, 4)
            /\ parse_state.annotations = <<[position |-> 0, text |-> "T"]>>
            /\ parse_state.bends = <<>>
            /\ parse_state.ties = <<>>
            /\ parse_state.vibratos = <<>>)
  /\ [][pc = "parseTokenLoop" /\ pc' \notin {"genElements", "thrown"}
          /\ parse_state'.value = <<"t">>
          => pc' = "parseTapAnnotation"]_vars
  /\ [][pc = "parseTapAnnotation"
          => \/ pc' = "thrown" /\ thrown' = "ParseError"
             \/ /\ pc' = "parseFret"
                /\ parse_state'.positions = parse_state.positions
                /\ parse_state'.annotations =
                     Append(parse_state.annotations,
                            [position |-> Len(parse_state.positions),
                             text |-> "T"])]_vars
  /\ [][pc = "parseFret"
          => IF IsDigitString(parse_state.value)
             THEN pc' # "thrown" =>
                    /\ Len(parse_state'.positions)
                         = Len(parse_state.positions) + 1
                    /\ parse_state'.positions[Len(parse_state'.positions)][1]
                         .fret = parse_state.value
             ELSE pc' = "thrown" /\ thrown' = "ParseError"]_vars

\* t5/4 has been parsed.
C15_Witness ==
  /\ input = <<"t", "5", "/", "4">>
  /\ GroupParsed
  /\ Len(parse_state.annotations) = 1

(***************************************************************************)
(* C16: within one parse() call, after any sequence of tabstave lines,     *)
(* notes lines and bar tokens, elements.staves, elements.notes and         *)
(* elements.ties have the same length and current_stave is that length     *)
(* minus one; every step that changes the elements leaves at least one     *)
(* stave and changes the note and tie lists of the current stave only (a   *)
(* note-group or bar before any tabstave line first creates the stave).    *)
(***************************************************************************)
C16_StaveListsAligned ==
  /\ [](/\ Len(elements.notes) = Len(elements.staves)
        /\ Len(elements.ties) = Len(elements.staves)
        /\ state.current_stave = Len(elements.staves) - 1)
  /\ [][elements' # elements
          => /\ IsIndex(elements'.staves, state'.current_stave)
             /\ \A i \in DOMAIN elements.notes :
                  i # state'.current_stave + 1
                  => /\ elements'.notes[i] = elements.notes[i]
                     /\ elements'.ties[i] = elements.ties[i]]_vars

\* A call on a document without a tabstave line returned with one stave
\* that holds bars, notes and a tie.
C16_Witness ==
  /\ pc = "returned"
  /\ state.current_line = 1
  /\ Len(elements.staves) = 1
  /\ Len(elements.notes[1]) = 4
  /\ elements.ties[1] # <<>>

(***************************************************************************)
(* C17: outside a chord the token that follows / must be a number: when    *)
(* parseString runs on a token that is not a run of digits, the note-group *)
(* parse raises a parse error and binds no string to any position.         *)
(***************************************************************************)
C17_StringMustBeNumber ==
  [][pc = "parseString" /\ ~IsDigitString(parse_state.value)
     => /\ pc' = "thrown"
        /\ thrown' = "ParseError"
        /\ parse_state'.positions = parse_state.positions]_vars

(***************************************************************************)
(* C18: closing a chord resets the parse state's chord index to -1, so     *)
(* every tie recorded outside a chord carries chord index 0, also when the *)
(* tie comes later in the note-group than a closed chord.                  *)
(***************************************************************************)
C18_TieOutsideChordIndexZero ==
  /\ [][pc = "parseCloseChord" /\ pc' # "thrown"
          => parse_state'.chord_index = -1]_vars
  /\ [](GroupParsed
         => \A i \in DOMAIN parse_state.ties : parse_state.ties[i].index = 0)

(***************************************************************************)
(* C19: whenever a vibrato is recorded while inside_bend is set, its       *)
(* position is the position at which the last bend started (position_index *)
(* minus that bend's count), which is never negative, for bend chains of   *)
(* any length; a vibrato recorded while not inside a bend gets the current *)
(* position index.                                                         *)
(***************************************************************************)
C19_VibratoAtBendOrigin ==
  [][/\ pc \in {"parseVibrato", "parseFretVibrato"}
     /\ Len(parse_state'.vibratos) = Len(parse_state.vibratos) + 1
     => LET v == parse_state'.vibratos[Len(parse_state'.vibratos)]
            ps == parse_state
        IN IF ps.inside_bend
           THEN /\ v.position = ps.bends[Len(ps.bends)].position
                /\ v.position
                     = ps.position_index - ps.bends[Len(ps.bends)].count
                /\ v.position >= 0
           ELSE v.position = ps.position_index]_vars

\* A vibrato was recorded at the origin of a bend chain of two steps that
\* does not start at the first position.
C19_Witness ==
  /\ pc = "genElements"
  /\ \E i \in DOMAIN parse_state.bends :
       /\ parse_state.bends[i].count = 2
       /\ parse_state.bends[i].position = 1
       /\ \E k \in DOMAIN parse_state.vibratos :
            parse_state.vibratos[k].position = 1

(***************************************************************************)
(* C20: when genElements converts the parsed note-group, every bend made   *)
(* inside a chord uses its explicit target fret (any number from 0 up) as  *)
(* destination, does not read positions[position + 1] (so it cannot fail   *)
(* on a missing position) and marks no position non-persistent; only the   *)
(* bends with inferred destination mark a position non-persistent, and     *)
(* they mark exactly position + 1.  Stated on the genElements step: it     *)
(* does not throw, and the notes it appends to the current stave are the   *)
(* positions that no inferred bend absorbs, in order, each with the bend    *)
(* modifiers the claim describes.                                          *)
(***************************************************************************)
\* The bend was made inside a chord: it has an explicit target fret.
HasTarget(bend) == bend.to_fret # Undefined

\* The destination fret of a bend, as the claim describes it.
Destination(positions, bend) ==
  IF HasTarget(bend) THEN bend.to_fret.n
  ELSE ParseInt(positions[bend.position + 2][bend.index + 1].fret).n

\* The bend modifiers of the note at position p (from 0), as the claim
\* describes them.
ClaimedBends(ps, p) ==
  LET At(bend) == bend.position = p
      bs == SelectSeq(ps.bends, At)
  IN [k \in DOMAIN bs |->
        [type |-> "Bend",
         text |-> BendText(
                    Destination(ps.positions, bs[k]),
                    ParseInt(ps.positions[p + 1][bs[k].index + 1].fret).n),
         release |-> bs[k].count > 1,
         index |-> bs[k].index]]

\* The notes genElements appends, as the claim describes them.
ClaimedNotes(ps) ==
  LET absorbed == {ps.bends[i].position + 1 :
                     i \in {k \in DOMAIN ps.bends : ~HasTarget(ps.bends[k])}}
      all == [i \in DOMAIN ps.positions |->
                [positions |-> ps.positions[i],
                 bends |-> ClaimedBends(ps, i - 1),
                 persist |-> (i - 1) \notin absorbed]]
      Persists(n) == n.persist
      kept == SelectSeq(all, Persists)
  IN [k \in DOMAIN kept |->
        [positions |-> kept[k].positions, bends |-> kept[k].bends]]

IsBend(modifier) == modifier.type = "Bend"

\* The notes that the step has appended to the current stave.
AppendedNotes ==
  LET old == IF state.current_stave = -1 THEN <<>>
             ELSE elements.notes[state.current_stave + 1]
      new == elements'.notes[state'.current_stave + 1]
      added == SubSeq(new, Len(old) + 1, Len(new))
  IN [k \in DOMAIN added |->
        [positions |-> added[k].positions,
         bends |-> SelectSeq(added[k].modifiers, IsBend)]]

C20_ChordBendsUseTarget ==
  [][pc = "genElements"
     => /\ pc' # "thrown"
        /\ AppendedNotes = ClaimedNotes(parse_state)]_vars

(***************************************************************************)
(* C21 as stated: once a / has been processed outside a chord,             *)
(* expecting_string stays true until the note-group's parse ends, and      *)
(* every dash, tie or bend that occurs later in the note-group raises a    *)
(* parse error, the bends inside a later chord included.                   *)
(***************************************************************************)
\* parseSlash sets expecting_string, and no step of the parse clears it.
ExpectingStringStays ==
  /\ [][pc = "parseSlash" => parse_state'.expecting_string]_vars
  /\ [][InGroup /\ parse_state.expecting_string
          => parse_state'.expecting_string]_vars

\* The step of the rule at label raises a parse error when expecting_string
\* is set.
RaisesOnString(label) ==
  pc = label /\ parse_state.expecting_string
  => pc' = "thrown" /\ thrown' = "ParseError"

C21_Original ==
  /\ ExpectingStringStays
  /\ [][/\ RaisesOnString("parseDash")
        /\ RaisesOnString("parseTie")
        /\ RaisesOnString("parseBend")
        /\ RaisesOnString("parseChordBend")]_vars

(***************************************************************************)
(* C21 amended: once a / has been processed outside a chord,               *)
(* expecting_string stays true until the note-group's parse ends, and      *)
(* every dash, tie or bend outside a chord that occurs later in the        *)
(* note-group raises a parse error, also when a tap annotation and a new   *)
(* fret came in between (5/4t6- raises on the dash); a bend inside a later *)
(* chord is not tested against expecting_string.                           *)
(***************************************************************************)
C21_StringEndsFretRun ==
  /\ ExpectingStringStays
  /\ [][/\ RaisesOnString("parseDash")
        /\ RaisesOnString("parseTie")
        /\ RaisesOnString("parseBend")]_vars
  /\ [](input = <<"5", "/", "4", "t", "6", "-">> /\ GroupEnded
         => /\ GroupRaised
            /\ last_error.msg = "No dashes on strings: ")
  /\ [](input = <<"5", "/", "4", "(", "6", "b", "7", "/", "5", ")">>
         /\ GroupEnded
         => GroupParsed /\ Len(parse_state.bends) = 1)

\* A tie after a string, a tap annotation and a new fret has raised.
C21_Witness ==
  /\ GroupRaised
  /\ input = <<"5", "/", "4", "t", "6", "s", "7", "/", "5">>
  /\ parse_state.expecting_string
  /\ Len(parse_state.positions) = 2
  /\ last_error.msg = "Unexpected token on string: "

(***************************************************************************)
(* C22: inside_bend is false every time the top-level loop fetches a token *)
(* and every time parseChordFret starts on a chord note; hence the first b *)
(* of a chord note appends a new bend, with the note's index inside the    *)
(* chord and the first target fret, and changes no earlier bend, and each  *)
(* chained b on the same chord note increments the count of that new bend  *)
(* only.                                                                   *)
(***************************************************************************)
\* parseChordBend runs for the first b of a chord note (called by
\* parseChordFret), not for a chained b (called by itself).
FirstChordBend ==
  /\ pc = "parseChordBend"
  /\ Head(stack).ret = "parseChordFretString"

ChainedChordBend ==
  /\ pc = "parseChordBend"
  /\ Head(stack).ret = "parseChordBendReturn"

C22_ChordBendIsNew ==
  /\ [](pc \in {"parseTokenLoop", "parseChordFret"}
         => ~parse_state.inside_bend)
  /\ [][FirstChordBend /\ pc' # "thrown"
          => parse_state'.bends =
               Append(parse_state.bends,
                      [position |-> Len(parse_state.positions) - 1,
                       count |-> 1,
                       index |-> Len(parse_state.positions[
                                       Len(parse_state.positions)]),
                       to_fret |-> ParseInt(DigitRun(parse_state.str))])]_vars
  /\ [][ChainedChordBend /\ pc' # "thrown"
          => /\ parse_state.bends # <<>>
             /\ parse_state'.bends =
                  [parse_state.bends EXCEPT
                     ![Len(parse_state.bends)].count = @ + 1]]_vars

\* A chord whose first note has a chain of two bends and whose second note
\* has its own bend has been parsed.
C22_Witness ==
  /\ pc = "genElements"
  /\ Len(parse_state.bends) = 2
  /\ parse_state.bends[1].count = 2
  /\ parse_state.bends[1].index = 0
  /\ parse_state.bends[2].count = 1
  /\ parse_state.bends[2].index = 1
  /\ parse_state.bends[2].position = 0

====
